---- MODULE Spec2Model ----
(***************************************************************************)
(* The bump-pointer allocator of src/heap/main-allocator.h and             *)
(* src/heap/main-allocator-inl.h: one owning context that allocates into   *)
(* the linear allocation area and publishes its progress, and one          *)
(* background reader of the published bounds.                              *)
(*                                                                         *)
(* Addresses and sizes are in bytes.  original_top_ is an atomic written   *)
(* with release and read with acquire ordering: it is modelled as the      *)
(* sequence of the stores made to it (newest last), each carrying the view *)
(* of the owner's plain memory that a release store makes available to an  *)
(* acquire load reading it.  A load may return a store that is not the     *)
(* newest one.                                                             *)
(***************************************************************************)
EXTENDS Integers, Sequences, FiniteSets, TLC

\* ------------------------------------------------------------- bounds
MaxRequestBytes == 12
MaxRegionBytes == 24
MaxRefills == 2
MaxStale == 1

\* ---------------------------------------------------------- constants
kTaggedSize == 4
kTaggedAligned == kTaggedSize
SpecialAlignments == {8, 16}
Alignments == {kTaggedAligned} \cup SpecialAlignments
NoAddress == 0 - 1

RequestSizes == 1..MaxRequestBytes
ConcRequestSizes == {2 * kTaggedSize}
ObsRequestSizes == {2 * kTaggedSize, 3 * kTaggedSize}
PauseRequestSizes == {2 * kTaggedSize}
BoundsRequestSizes == {3 * kTaggedSize}
IterRequestSizes == {kTaggedSize, 2 * kTaggedSize, 3 * kTaggedSize}
ObserverSteps == {2 * kTaggedSize, 3 * kTaggedSize}
RegionStarts == {4, 40}
RegionLengths == {0, MaxRegionBytes}

VARIABLES
  use_allocation_alignment, \* USE_ALLOCATION_ALIGNMENT_BOOL of the build
  start, top, limit,        \* allocation_info_
  published,                \* the stores to original_top_, newest last
  original_limit,           \* original_limit_
  lock,                     \* linear_area_lock_: "free" | "exclusive"
  pc,                       \* where the owning context is
  result,                   \* what the last AllocateRaw returned
  epoch,                    \* how many times the region was replaced
  log,                      \* successful allocations of the current region
  lastOp,                   \* the last fast-path attempt
  trace,                    \* the phases of the current or last request
  counter,                  \* allocation_counter_ and its observer
  readers,                  \* how many background readers there are
  reader,                   \* the background reader's last acquire-load
  bounds_read,              \* what the reader loaded under the lock
  tail                      \* the filler object over the unused [top, limit)

vars == <<use_allocation_alignment, start, top, limit, published,
          original_limit, lock, pc, result, epoch, log, lastOp, trace,
          counter, readers, reader, bounds_read, tail>>

\* ------------------------------------------------- allocation results
Failure == [failure |-> TRUE, object |-> NoAddress]
FromObject(address) == [failure |-> FALSE, object |-> address]

\* ---------------------------------------------- linear allocation area
ALIGN_TO_ALLOCATION_ALIGNMENT(n) ==
  ((n + kTaggedSize - 1) \div kTaggedSize) * kTaggedSize

CanIncrementTop(t, l, bytes) == t + bytes <= l

IncrementTop(t, bytes) == [old_top |-> t, top |-> t + bytes]

GetFillToAlign(address, alignment) ==
  (alignment - (address % alignment)) % alignment

\* Heap::PrecedeWithFiller: a filler object at the given address, and the
\* object moved behind it.
PrecedeWithFiller(object, filler_size) ==
  [object |-> object + filler_size, filler_addr |-> object]

\* ------------------------------------------------------ the fast paths
\* Each returns the AllocationResult, the new top, and what the attempt
\* did: the filler object it created (its address and size; size 0 for
\* none) and the aligned size it computed (0 when it gave up before).
NoAllocation(t) ==
  [result |-> Failure, top |-> t, filler |-> 0, filler_addr |-> NoAddress,
   aligned_size |-> 0]

\* Variants of the fast paths, each with one slip.
\* The bounds check is strict: an exact fit is refused.
AllocateFastUnaligned_Strict(t, l, size_in_bytes) ==
  LET size == ALIGN_TO_ALLOCATION_ALIGNMENT(size_in_bytes) IN
  IF ~(t + size < l)
  THEN NoAllocation(t)
  ELSE LET inc == IncrementTop(t, size) IN
       [result |-> FromObject(inc.old_top), top |-> inc.top, filler |-> 0,
        filler_addr |-> NoAddress, aligned_size |-> size]

\* The object is placed at the new top, not at the old one.
AllocateFastUnaligned_NewTop(t, l, size_in_bytes) ==
  LET size == ALIGN_TO_ALLOCATION_ALIGNMENT(size_in_bytes) IN
  IF ~CanIncrementTop(t, l, size)
  THEN NoAllocation(t)
  ELSE LET inc == IncrementTop(t, size) IN
       [result |-> FromObject(inc.top), top |-> inc.top, filler |-> 0,
        filler_addr |-> NoAddress, aligned_size |-> size]

\* Top is advanced by the object's size without the filler's.
AllocateFastAligned_TopBySize(t, l, size_in_bytes, alignment) ==
  LET filler_size == GetFillToAlign(t, alignment)
      aligned_size_in_bytes == size_in_bytes + filler_size
  IN
  IF ~CanIncrementTop(t, l, aligned_size_in_bytes)
  THEN NoAllocation(t)
  ELSE LET inc == IncrementTop(t, size_in_bytes)
           filled == PrecedeWithFiller(inc.old_top, filler_size)
       IN IF filler_size > 0
          THEN [result |-> FromObject(filled.object), top |-> inc.top,
                filler |-> filler_size, filler_addr |-> filled.filler_addr,
                aligned_size |-> aligned_size_in_bytes]
          ELSE [result |-> FromObject(inc.old_top), top |-> inc.top,
                filler |-> 0, filler_addr |-> NoAddress,
                aligned_size |-> aligned_size_in_bytes]

\* The object is not moved behind its filler.
AllocateFastAligned_NoFiller(t, l, size_in_bytes, alignment) ==
  LET filler_size == GetFillToAlign(t, alignment)
      aligned_size_in_bytes == size_in_bytes + filler_size
  IN
  IF ~CanIncrementTop(t, l, aligned_size_in_bytes)
  THEN NoAllocation(t)
  ELSE LET inc == IncrementTop(t, aligned_size_in_bytes)
       IN [result |-> FromObject(inc.old_top), top |-> inc.top,
           filler |-> 0, filler_addr |-> NoAddress,
           aligned_size |-> aligned_size_in_bytes]

\* The filler is written before the bounds check.
AllocateFastAligned_FillerFirst(t, l, size_in_bytes, alignment) ==
  LET filler_size == GetFillToAlign(t, alignment)
      aligned_size_in_bytes == size_in_bytes + filler_size
      filled == PrecedeWithFiller(t, filler_size)
      written == IF filler_size > 0 THEN filled.filler_addr ELSE NoAddress
  IN
  IF ~CanIncrementTop(t, l, aligned_size_in_bytes)
  THEN [result |-> Failure, top |-> t, filler |-> filler_size,
        filler_addr |-> written, aligned_size |-> 0]
  ELSE LET inc == IncrementTop(t, aligned_size_in_bytes)
       IN [result |-> FromObject(filled.object), top |-> inc.top,
           filler |-> filler_size, filler_addr |-> written,
           aligned_size |-> aligned_size_in_bytes]

AllocateFastUnaligned(t, l, size_in_bytes) ==
  LET size == ALIGN_TO_ALLOCATION_ALIGNMENT(size_in_bytes) IN
  IF ~CanIncrementTop(t, l, size)
  THEN NoAllocation(t)
  ELSE LET inc == IncrementTop(t, size) IN
       [result |-> FromObject(inc.old_top), top |-> inc.top, filler |-> 0,
        filler_addr |-> NoAddress, aligned_size |-> size]

AllocateFastAligned(t, l, size_in_bytes, alignment) ==
  LET filler_size == GetFillToAlign(t, alignment)
      aligned_size_in_bytes == size_in_bytes + filler_size
  IN
  IF ~CanIncrementTop(t, l, aligned_size_in_bytes)
  THEN NoAllocation(t)
  ELSE LET inc == IncrementTop(t, aligned_size_in_bytes)
           filled == PrecedeWithFiller(inc.old_top, filler_size)
       IN IF filler_size > 0
          THEN [result |-> FromObject(filled.object), top |-> inc.top,
                filler |-> filler_size, filler_addr |-> filled.filler_addr,
                aligned_size |-> aligned_size_in_bytes]
          ELSE [result |-> FromObject(inc.old_top), top |-> inc.top,
                filler |-> 0, filler_addr |-> NoAddress,
                aligned_size |-> aligned_size_in_bytes]

\* The build's USE_ALLOCATION_ALIGNMENT_BOOL is not consulted.
FastPath_AnyBuild(alignment) ==
  IF alignment # kTaggedAligned THEN "FastAligned" ELSE "FastUnaligned"

\* AllocateRaw's choice of the fast path.
FastPath(alignment) ==
  IF use_allocation_alignment /\ alignment # kTaggedAligned
  THEN "FastAligned"
  ELSE "FastUnaligned"

FastAttempt(path, t, l, size_in_bytes, alignment) ==
  IF path = "FastAligned"
  THEN AllocateFastAligned(t, l, size_in_bytes, alignment)
  ELSE AllocateFastUnaligned(t, l, size_in_bytes)

\* The fast path's failure is returned as it is.
AfterFast_NoSlowPath(r) == "idle"

\* AllocateRaw's return: the slow path exactly when the fast one failed.
AfterFast(r) == IF r.failure THEN "slow" ELSE "idle"

\* ------------------------------------------------------ published top
OwnerView == [epoch |-> epoch, top |-> top]
NoView == [epoch |-> 0 - 1, top |-> 0]

ViewLeq(a, b) ==
  \/ a.epoch < b.epoch
  \/ a.epoch = b.epoch /\ a.top <= b.top

ViewJoin(a, b) == IF ViewLeq(a, b) THEN b ELSE a

\* The stores to original_top_ that a load can still return: with no
\* reader only the newest.
\* A relaxed store: nothing is handed over with the value.
set_original_top_relaxed(address) ==
  [val |-> address, view |-> NoView, at |-> OwnerView]

\* A store to original_top_: the value, the view a release store hands
\* over, and (at) the owner's memory when the store was made.
set_original_top_release(address) ==
  [val |-> address, view |-> OwnerView, at |-> OwnerView]

get_original_top_acquire(msg, view) ==
  [val |-> msg.val, at |-> msg.at, view |-> ViewJoin(view, msg.view)]

Latest == published[Len(published)]
original_top == Latest.val

Publish(msg) ==
  LET all == Append(published, msg)
      n == Len(all)
      keep == IF readers = 0 THEN 1 ELSE MaxStale + 1
  IN IF n > keep THEN SubSeq(all, n - keep + 1, n) ELSE all

\* ------------------------------------------------ allocation observers
\* The counter with its one observer: the observer's step (0: none is
\* registered), the bytes left to the next step, whether the observers are
\* paused, how often the observer was invoked and with what, whether the
\* last advance invoked it, and the bytes allocated since it was
\* registered.
NoFiring == [object |-> NoAddress, size |-> 0, aligned_size |-> 0]
\* Further: the countdown the observers were last resumed with (0: never),
\* and the bytes allocated during the last pause.
NoObserver ==
  [step |-> 0, next |-> 0, paused |-> FALSE, fired |-> 0, with |-> NoFiring,
   just |-> FALSE, allocated |-> 0, resumed |-> 0, held |-> 0]
AddAllocationObserver(step) == [NoObserver EXCEPT !.step = step, !.next = step]

Allocated(c, r) ==
  IF c.step = 0 \/ r.result.failure
  THEN c
  ELSE [c EXCEPT !.allocated = @ + r.aligned_size,
                 !.held = IF c.paused THEN @ + r.aligned_size ELSE @]

\* The countdown goes down by the allocation; at or below zero the observer
\* is invoked with the allocation and the countdown restarts at its step.
InvokeAllocationObservers(c, soon_object, size_in_bytes, aligned_size_in_bytes, allocation_size) ==
  IF c.step = 0 \/ c.paused
  THEN c
  ELSE IF c.next - allocation_size <= 0
       THEN [c EXCEPT !.next = c.step,
                      !.fired = @ + 1,
                      !.just = TRUE,
                      !.with = [object |-> soon_object,
                                size |-> size_in_bytes,
                                aligned_size |-> aligned_size_in_bytes]]
       ELSE [c EXCEPT !.next = @ - allocation_size]

\* ---------------------------------------------------------------- Init
\* The allocator once its space has set a linear allocation area (an
\* empty one included) and published it as the original bounds.
NoOp ==
  [kind |-> "none", attempt |-> 0, top |-> 0, limit |-> 0, size |-> 0,
   alignment |-> kTaggedAligned,
   r |-> NoAllocation(0)]
NoLoad == [val |-> NoAddress, at |-> NoView, view |-> NoView]
NoLimitLoad == [locked_top |-> NoAddress, locked_limit |-> NoAddress]
NoTail == [addr |-> NoAddress, size |-> 0]

InitAllocator ==
  /\ use_allocation_alignment \in BOOLEAN
  /\ start \in RegionStarts
  /\ top = start
  /\ \E len \in RegionLengths : limit = start + len
  /\ epoch = 0
  /\ published =
       <<[val |-> start,
          view |-> [epoch |-> 0, top |-> start],
          at |-> [epoch |-> 0, top |-> start]]>>
  /\ original_limit = limit
  /\ lock = "free"
  /\ pc = "idle"
  /\ result = Failure
  /\ log = <<>>
  /\ lastOp = NoOp
  /\ trace = <<>>
  /\ reader = NoLoad
  /\ bounds_read = NoLimitLoad
  /\ tail = NoTail

Init == InitAllocator /\ readers = 0 /\ counter = NoObserver

ConcInit == InitAllocator /\ readers = 1 /\ counter = NoObserver

ObsInit ==
  /\ InitAllocator
  /\ readers = 0
  /\ \E step \in ObserverSteps : counter = AddAllocationObserver(step)

\* ------------------------------------------------------- the owner
\* What one fast-path attempt leaves behind: the new top and, on success,
\* the allocation in the region's log; the object is written where a
\* filler over the unused area began.
Attempt(n, path, size, alignment, r) ==
  /\ top' = r.top
  /\ lastOp' = [kind |-> path, attempt |-> n, top |-> top, limit |-> limit,
                size |-> size, alignment |-> alignment, r |-> r]
  /\ log' = IF r.result.failure
            THEN log
            ELSE Append(log, [addr |-> r.result.object, size |-> size,
                              filler |-> r.filler,
                              filler_addr |-> r.filler_addr])
  /\ tail' = IF r.result.failure THEN tail ELSE NoTail

AllocateRaw(size_in_bytes, alignment) ==
  /\ pc = "idle"
  /\ LET size == ALIGN_TO_ALLOCATION_ALIGNMENT(size_in_bytes)
         path == FastPath(alignment)
         r == FastAttempt(path, top, limit, size, alignment)
         next == AfterFast(r.result)
     IN /\ Attempt(1, path, size, alignment, r)
        /\ pc' = next
        /\ result' = r.result
        /\ counter' = [Allocated(counter, r) EXCEPT !.just = FALSE]
        /\ trace' = <<"Start", path,
                      IF next = "slow" THEN "SlowPath"
                      ELSE IF r.result.failure THEN "Fatal" ELSE "Success">>
  /\ UNCHANGED <<use_allocation_alignment, start, limit, published,
                 original_limit, lock, epoch, readers, reader,
                 bounds_read>>

\* AllocateRawSlow: the space refills the region (a new area, anywhere) or
\* cannot; the new area is installed and published by SetOriginalBounds;
\* the fast path is then retried once.
AllocateRawSlow_Refill ==
  /\ pc = "slow"
  /\ \/ /\ pc' = "retry"
        /\ UNCHANGED <<start, top, limit, epoch, log, tail>>
     \/ /\ epoch < MaxRefills
        /\ \E s \in RegionStarts, len \in RegionLengths :
             /\ s # start
             /\ len > 0
             /\ start' = s
             /\ top' = s
             /\ limit' = s + len
        /\ epoch' = epoch + 1
        /\ log' = <<>>
        /\ tail' = NoTail
        /\ pc' = "sob_lock"
  /\ UNCHANGED <<use_allocation_alignment, published, original_limit, lock,
                 result, lastOp, trace, counter, readers, reader,
                 bounds_read>>

\* The bounds are reset without the lock.
SetOriginalBounds_NoLock ==
  /\ pc = "sob_lock"
  /\ pc' = "sob_limit"
  /\ UNCHANGED <<use_allocation_alignment, start, top, limit, published,
                 original_limit, lock, result, epoch, log, lastOp, trace,
                 counter, readers, reader, bounds_read, tail>>

SetOriginalBounds_Lock ==
  /\ pc = "sob_lock"
  /\ lock = "free"
  /\ lock' = "exclusive"
  /\ pc' = "sob_limit"
  /\ UNCHANGED <<use_allocation_alignment, start, top, limit, published,
                 original_limit, result, epoch, log, lastOp, trace, counter,
                 readers, reader, bounds_read, tail>>

SetOriginalBounds_Limit ==
  /\ pc = "sob_limit"
  /\ original_limit' = limit
  /\ pc' = "sob_top"
  /\ UNCHANGED <<use_allocation_alignment, start, top, limit, published,
                 lock, result, epoch, log, lastOp, trace, counter, readers,
                 reader, bounds_read, tail>>

SetOriginalBounds_Top ==
  /\ pc = "sob_top"
  /\ published' = Publish(set_original_top_release(top))
  /\ lock' = "free"
  /\ pc' = "retry"
  /\ UNCHANGED <<use_allocation_alignment, start, top, limit, original_limit,
                 result, epoch, log, lastOp, trace, counter, readers, reader,
                 bounds_read, tail>>

\* The retry without the observers.
AllocateRawSlow_Retry_NoObservers ==
  /\ pc = "retry"
  /\ LET path == FastPath(lastOp.alignment)
         r == FastAttempt(path, top, limit, lastOp.size, lastOp.alignment)
     IN /\ Attempt(2, path, lastOp.size, lastOp.alignment, r)
        /\ result' = r.result
        /\ counter' = Allocated(counter, r)
        /\ trace' = Append(trace,
                           IF r.result.failure THEN "Fatal" ELSE "Success")
  /\ pc' = "idle"
  /\ UNCHANGED <<use_allocation_alignment, start, limit, published,
                 original_limit, lock, epoch, readers, reader,
                 bounds_read>>

\* and, when the retry succeeded, the observers are advanced by it.
AllocateRawSlow_Retry ==
  /\ pc = "retry"
  /\ LET path == FastPath(lastOp.alignment)
         r == FastAttempt(path, top, limit, lastOp.size, lastOp.alignment)
     IN /\ Attempt(2, path, lastOp.size, lastOp.alignment, r)
        /\ result' = r.result
        /\ counter' =
             IF r.result.failure
             THEN counter
             ELSE InvokeAllocationObservers(
                    Allocated(counter, r), r.result.object, lastOp.size,
                    r.aligned_size, r.aligned_size)
        /\ trace' = Append(trace,
                           IF r.result.failure THEN "Fatal" ELSE "Success")
  /\ pc' = "idle"
  /\ UNCHANGED <<use_allocation_alignment, start, limit, published,
                 original_limit, lock, epoch, readers, reader,
                 bounds_read>>

\* MoveOriginalTopForward: the guard's lock, the store, the guard's unlock.
MoveOriginalTopForward_Lock ==
  /\ pc = "idle"
  /\ lock = "free"
  /\ lock' = "exclusive"
  /\ pc' = "motf_store"
  /\ UNCHANGED <<use_allocation_alignment, start, top, limit, published,
                 original_limit, result, epoch, log, lastOp, trace, counter,
                 readers, reader, bounds_read, tail>>

\* The limit is published in place of the top.
MoveOriginalTopForward_StoreLimit ==
  /\ pc = "motf_store"
  /\ published' = Publish(set_original_top_release(limit))
  /\ pc' = "motf_unlock"
  /\ UNCHANGED <<use_allocation_alignment, start, top, limit, original_limit,
                 lock, result, epoch, log, lastOp, trace, counter, readers,
                 reader, bounds_read, tail>>

MoveOriginalTopForward_Store ==
  /\ pc = "motf_store"
  /\ published' = Publish(set_original_top_release(top))
  /\ pc' = "motf_unlock"
  /\ UNCHANGED <<use_allocation_alignment, start, top, limit, original_limit,
                 lock, result, epoch, log, lastOp, trace, counter, readers,
                 reader, bounds_read, tail>>

\* The lock is kept on exit.
MoveOriginalTopForward_Unlock_Kept ==
  /\ pc = "motf_unlock"
  /\ pc' = "idle"
  /\ UNCHANGED <<use_allocation_alignment, start, top, limit, published,
                 original_limit, lock, result, epoch, log, lastOp, trace,
                 counter, readers, reader, bounds_read, tail>>

MoveOriginalTopForward_Unlock ==
  /\ pc = "motf_unlock"
  /\ lock' = "free"
  /\ pc' = "idle"
  /\ UNCHANGED <<use_allocation_alignment, start, top, limit, published,
                 original_limit, result, epoch, log, lastOp, trace, counter,
                 readers, reader, bounds_read, tail>>

\* MakeLinearAllocationAreaIterable: one filler object over the unused
\* [top, limit) (none when nothing is unused).
MakeLinearAllocationAreaIterable ==
  /\ pc = "idle"
  /\ tail' = [addr |-> top, size |-> limit - top]
  /\ UNCHANGED <<use_allocation_alignment, start, top, limit, published,
                 original_limit, lock, pc, result, epoch, log, lastOp, trace,
                 counter, readers, reader, bounds_read>>

\* Pausing suspends the countdown, resuming takes it up where it stood.
PauseAllocationObservers ==
  /\ pc = "idle"
  /\ counter.step > 0
  /\ ~counter.paused
  /\ counter' = [counter EXCEPT !.paused = TRUE, !.held = 0, !.just = FALSE]
  /\ UNCHANGED <<use_allocation_alignment, start, top, limit, published,
                 original_limit, lock, pc, result, epoch, log, lastOp, trace,
                 readers, reader, bounds_read, tail>>

\* The countdown restarts at the full step.
ResumeAllocationObservers_Reset ==
  /\ pc = "idle"
  /\ counter.paused
  /\ counter' = [counter EXCEPT !.paused = FALSE, !.next = counter.step,
                                !.resumed = counter.step, !.just = FALSE]
  /\ UNCHANGED <<use_allocation_alignment, start, top, limit, published,
                 original_limit, lock, pc, result, epoch, log, lastOp, trace,
                 readers, reader, bounds_read, tail>>

ResumeAllocationObservers ==
  /\ pc = "idle"
  /\ counter.paused
  /\ counter' = [counter EXCEPT !.paused = FALSE, !.resumed = counter.next,
                                !.just = FALSE]
  /\ UNCHANGED <<use_allocation_alignment, start, top, limit, published,
                 original_limit, lock, pc, result, epoch, log, lastOp, trace,
                 readers, reader, bounds_read, tail>>

\* ------------------------------------------------------- the reader
\* An acquire-load of original_top_: any store not older than the one the
\* reader read last.
Reader_Load ==
  /\ readers > 0
  /\ lock # "shared"
  /\ \E i \in DOMAIN published :
       /\ ViewLeq(reader.at, published[i].at)
       /\ LET got == get_original_top_acquire(published[i], reader.view)
          IN reader' = got
  /\ UNCHANGED <<use_allocation_alignment, start, top, limit, published,
                 original_limit, lock, pc, result, epoch, log, lastOp, trace,
                 counter, readers, bounds_read, tail>>

\* A relaxed load of original_limit_ under the lock.
Reader_LoadLimit ==
  /\ lock = "shared"
  /\ bounds_read' = [bounds_read EXCEPT !.locked_limit = original_limit]
  /\ UNCHANGED <<use_allocation_alignment, start, top, limit, published,
                 original_limit, lock, pc, result, epoch, log, lastOp, trace,
                 counter, readers, reader, tail>>

\* The reader takes linear_area_lock_ shared, loads under it, releases it.
Reader_LockShared ==
  /\ readers > 0
  /\ lock = "free"
  /\ lock' = "shared"
  /\ bounds_read' = [bounds_read EXCEPT !.locked_top = NoAddress,
                                        !.locked_limit = NoAddress]
  /\ UNCHANGED <<use_allocation_alignment, start, top, limit, published,
                 original_limit, pc, result, epoch, log, lastOp, trace,
                 counter, readers, reader, tail>>

\* Taking the lock orders the load after every store made under the lock:
\* the newest store is read.
Reader_LoadShared ==
  /\ lock = "shared"
  /\ reader' = get_original_top_acquire(Latest, reader.view)
  /\ bounds_read' = [bounds_read EXCEPT !.locked_top = Latest.val]
  /\ UNCHANGED <<use_allocation_alignment, start, top, limit, published,
                 original_limit, lock, pc, result, epoch, log, lastOp, trace,
                 counter, readers, tail>>

Reader_UnlockShared ==
  /\ lock = "shared"
  /\ lock' = "free"
  /\ UNCHANGED <<use_allocation_alignment, start, top, limit, published,
                 original_limit, pc, result, epoch, log, lastOp, trace,
                 counter, readers, reader, bounds_read, tail>>

Owner(sizes) ==
  \/ \E size_in_bytes \in sizes, alignment \in Alignments :
       AllocateRaw(size_in_bytes, alignment)
  \/ AllocateRawSlow_Refill
  \/ SetOriginalBounds_Lock
  \/ SetOriginalBounds_Limit
  \/ SetOriginalBounds_Top
  \/ AllocateRawSlow_Retry
  \/ MoveOriginalTopForward_Lock
  \/ MoveOriginalTopForward_Store
  \/ MoveOriginalTopForward_Unlock

\* The allocator alone.
Next == Owner(RequestSizes)

Spec == Init /\ [][Next]_vars

\* The allocator and a background reader.
ConcNext == Owner(ConcRequestSizes) \/ Reader_Load

ConcSpec == ConcInit /\ [][ConcNext]_vars

\* The allocator and a background reader that also loads both bounds
\* under the lock.
BoundsNext ==
  \/ Owner(BoundsRequestSizes)
  \/ Reader_Load
  \/ Reader_LoadLimit
  \/ Reader_LockShared
  \/ Reader_LoadShared
  \/ Reader_UnlockShared

BoundsSpec == ConcInit /\ [][BoundsNext]_vars

\* The allocator with one allocation observer registered.
ObsNext == Owner(ObsRequestSizes)

ObsSpec == ObsInit /\ [][ObsNext]_vars

\* The same, with the observers paused and resumed between requests.
PauseNext ==
  \/ Owner(PauseRequestSizes)
  \/ PauseAllocationObservers
  \/ ResumeAllocationObservers

PauseSpec == ObsInit /\ [][PauseNext]_vars

\* The allocator, with its linear allocation area made iterable between
\* requests.
IterNext ==
  \/ Owner(IterRequestSizes)
  \/ MakeLinearAllocationAreaIterable

IterSpec == Init /\ [][IterNext]_vars

\* ================================================================ claims
Consecutive == {i \in DOMAIN log : i + 1 \in DOMAIN log}
ObjectEnd(a) == a.addr + a.size
Disjoint(from1, to1, from2, to2) == to1 <= from2 \/ to2 <= from1
Succeeded(op) == op.kind # "none" /\ ~op.r.result.failure

\* C1 as stated: successive allocations of one region return strictly
\* increasing addresses, and addr(i) + aligned_size(i) <= addr(i+1) with
\* aligned_size(i) the requested size plus the alignment filler.
C1_AlignedSizeFromObject ==
  \A i \in Consecutive :
    /\ log[i].addr < log[i + 1].addr
    /\ log[i].addr + (log[i].size + log[i].filler) <= log[i + 1].addr

\* C1 amended: successive allocations of one region return strictly
\* increasing addresses, and addr(i) + size(i) <= addr(i+1): the filler
\* lies before addr(i), so the aligned size counts from addr(i) - filler(i).
C1_Monotonic ==
  \A i \in Consecutive :
    /\ log[i].addr < log[i + 1].addr
    /\ log[i].addr + log[i].size <= log[i + 1].addr
    /\ (log[i].addr - log[i].filler) + (log[i].size + log[i].filler)
         <= log[i + 1].addr

C1_Witness ==
  /\ Len(log) >= 3
  /\ \E i \in Consecutive : log[i].filler > 0 /\ log[i + 1].filler = 0

\* C2: the objects returned in one region never overlap each other nor an
\* alignment filler, and every returned range lies inside [start, top).
C2_NoOverlap ==
  /\ \A i \in DOMAIN log :
       /\ start <= log[i].addr
       /\ ObjectEnd(log[i]) <= top
  /\ \A i, j \in DOMAIN log :
       /\ i # j =>
            Disjoint(log[i].addr, ObjectEnd(log[i]),
                     log[j].addr, ObjectEnd(log[j]))
       /\ log[j].filler > 0 =>
            Disjoint(log[i].addr, ObjectEnd(log[i]),
                     log[j].filler_addr, log[j].filler_addr + log[j].filler)

C2_Witness ==
  /\ Len(log) >= 3
  /\ \E j \in DOMAIN log : log[j].filler > 0 /\ j > 1
  /\ top = limit

C5_FastUnaligned ==
  lastOp.kind = "FastUnaligned" =>
    /\ ~lastOp.r.result.failure <=> lastOp.top + lastOp.size <= lastOp.limit
    /\ ~lastOp.r.result.failure =>
         /\ lastOp.r.result.object = lastOp.top
         /\ lastOp.r.top = lastOp.top + lastOp.size
    /\ pc = "idle" => top = lastOp.r.top

C5_Witness ==
  /\ lastOp.kind = "FastUnaligned"
  /\ Succeeded(lastOp)
  /\ lastOp.top > start
  /\ top = limit

InSlowPath == pc \in {"slow", "sob_lock", "sob_limit", "sob_top", "retry"}
SpecialAlignment(op) == op.alignment # kTaggedAligned
LastPhase == trace[Len(trace)]

\* What C6 says of the phases after the choice of the fast path: the slow
\* path is entered exactly when the fast attempt failed, a fast success is
\* returned as it is, and the request ends with Success or Fatal.
PhasesAfterChoice ==
  /\ Len(trace) \in {3, 4}
  /\ trace[1] = "Start"
  /\ trace[2] = lastOp.kind
  /\ trace[3] \in {"Success", "SlowPath"}
  /\ trace[3] = "Success" =>
       /\ Len(trace) = 3
       /\ pc \notin {"slow", "sob_lock", "sob_limit", "sob_top", "retry"}
       /\ lastOp.attempt = 1
       /\ Succeeded(lastOp)
       /\ result = lastOp.r.result
  /\ trace[3] = "SlowPath" =>
       /\ lastOp.attempt = 1 => lastOp.r.result.failure
       /\ Len(trace) = 3 <=> InSlowPath
       /\ Len(trace) = 3 <=> lastOp.attempt = 1
  /\ Len(trace) = 4 =>
       /\ trace[3] = "SlowPath"
       /\ trace[4] \in {"Success", "Fatal"}
       /\ trace[4] = "Success" <=> Succeeded(lastOp)

\* C6 as stated: AllocateFastUnaligned without a special alignment and
\* AllocateFastAligned for every request with one; the slow path exactly
\* on a fast failure; Start -> Fast.. -> (Success | SlowPath) -> Success |
\* Fatal.
C6_AlignedForEverySpecial ==
  trace # <<>> =>
    /\ trace[2] = IF SpecialAlignment(lastOp)
                  THEN "FastAligned" ELSE "FastUnaligned"
    /\ PhasesAfterChoice

\* C6 amended: AllocateFastAligned for a request with a special alignment
\* when the build uses allocation alignment (USE_ALLOCATION_ALIGNMENT_BOOL),
\* AllocateFastUnaligned for every other request; the slow path exactly on a
\* fast failure; Start -> Fast.. -> (Success | SlowPath) -> Success | Fatal.
C6_Dispatch ==
  trace # <<>> =>
    /\ trace[2] = IF use_allocation_alignment /\ SpecialAlignment(lastOp)
                  THEN "FastAligned" ELSE "FastUnaligned"
    /\ PhasesAfterChoice

C6_Witness ==
  /\ trace = <<"Start", "FastAligned", "SlowPath", "Success">>
  /\ epoch = 1
  /\ lastOp.r.filler > 0

\* C7: a request enters the slow path at most once, the slow path retries
\* the fast path once, a failed retry ends the request with Failure, and
\* every request ends.
SlowPathOnce ==
  /\ Cardinality({i \in DOMAIN trace : trace[i] = "SlowPath"}) <= 1
  /\ lastOp.attempt <= 2
  /\ InSlowPath => lastOp.attempt = 1
  /\ (pc = "idle" /\ trace # <<>>) =>
       /\ LastPhase \in {"Success", "Fatal"}
       /\ result.failure <=> LastPhase = "Fatal"
       /\ LastPhase = "Fatal" =>
            /\ trace = <<"Start", lastOp.kind, "SlowPath", "Fatal">>
            /\ lastOp.attempt = 2
            /\ lastOp.r.result.failure

C7_OneRetryThenEnds == []SlowPathOnce /\ (InSlowPath ~> pc = "idle")

C7_Witness ==
  /\ pc = "idle"
  /\ trace = <<"Start", "FastAligned", "SlowPath", "Fatal">>
  /\ epoch = 1

\* The owner runs: a step it can take is taken.
FairSpec == Spec /\ WF_vars(Next)

\* ------------------------------------------------ the published bounds
Replacing == pc \in {"sob_lock", "sob_limit", "sob_top"}
Loaded == reader.val # NoAddress

\* C3 as stated: in every reachable state start <= top <= limit, and
\* original_top is at most the live top.
C3_OriginalTopBelowTop ==
  /\ start <= top
  /\ top <= limit
  /\ original_top <= top

\* C3 amended: in every reachable state start <= top <= limit, and the
\* newest original_top is at most the live top unless the slow path has
\* installed a new region and SetOriginalBounds has not yet published it.
C3_Bounds ==
  /\ start <= top
  /\ top <= limit
  /\ ~Replacing => original_top <= top

C3_Witness ==
  /\ epoch = 1
  /\ pc = "idle"
  /\ Loaded
  /\ start < original_top
  /\ original_top < top

\* C8 as stated: no acquire-load of original_top returns a value greater
\* than the live top at the moment of the load.
C8_NeverAboveTop == [][reader' # reader => reader'.val <= top]_vars

\* C8 amended: an acquire-load of original_top that returns a value stored
\* for the region live at the moment of the load returns at most the live
\* top.
C8_NeverAboveTopOfRegion ==
  [][(reader' # reader /\ reader'.at.epoch = epoch) => reader'.val <= top]_vars

C8_Witness ==
  /\ Loaded
  /\ epoch = 1
  /\ reader.at.epoch = epoch
  /\ start < reader.val
  /\ reader.val < original_top

\* C9: once the reader has loaded a published original_top, what the owner
\* had allocated and written when it stored that value is visible to the
\* reader: it sees the region allocated at least up to the value.
C9_PublishedIsVisible ==
  Loaded =>
    /\ ViewLeq(reader.at, reader.view)
    /\ reader.view.epoch = reader.at.epoch => reader.val <= reader.view.top

C9_Witness ==
  /\ Loaded
  /\ reader.val = top
  /\ Len(log) >= 2
  /\ epoch = 1

\* ------------------------------------------------------- the observer
Observing == counter.step > 0 /\ ~counter.paused
Steps == 0..(((MaxRefills + 1) * MaxRegionBytes) \div kTaggedSize)

\* C10 as stated: with one observer of step S, not paused, after successful
\* allocations of exactly k*S bytes in all the observer has fired exactly k
\* times, each time with the address and sizes of the allocation that
\* crossed the step.
C10_ExactlyK ==
  Observing =>
    \A k \in Steps : counter.allocated = k * counter.step => counter.fired = k

\* C10 amended: with one observer of step S, not paused, every firing takes
\* at least S allocated bytes, so after successful allocations of exactly
\* k*S bytes in all the observer has fired at most k times; each firing
\* carries the address and sizes of the allocation that crossed the step.
C10_AtMostK ==
  Observing =>
    /\ counter.fired * counter.step <= counter.allocated
    /\ \A k \in Steps : counter.allocated = k * counter.step => counter.fired <= k
    /\ counter.just =>
         /\ Succeeded(lastOp)
         /\ counter.with.size = lastOp.size
         /\ counter.with.object + counter.with.size = top
         /\ counter.with.object
              - (counter.with.aligned_size - counter.with.size) = lastOp.top
         /\ counter.with.aligned_size >= counter.step
              \/ counter.next = counter.step

C10_Witness ==
  /\ Observing
  /\ counter.just
  /\ counter.fired = 2
  /\ counter.with.aligned_size > counter.with.size
  /\ counter.allocated = 3 * counter.step

\* C11: between PauseAllocationObservers and ResumeAllocationObservers the
\* observer is not invoked and the countdown stands still, whatever is
\* allocated; resuming leaves the countdown as it stood at the pause, so
\* the next invocation comes with the allocation that uses up what
\* remained then, not a full step.
C11_PausedThenResumed ==
  [][/\ counter.paused =>
          /\ counter'.fired = counter.fired
          /\ counter'.next = counter.next
     /\ counter'.paused # counter.paused =>
          /\ counter'.fired = counter.fired
          /\ counter'.next = counter.next
     /\ counter'.fired # counter.fired =>
          /\ counter'.fired = counter.fired + 1
          /\ counter.next <= lastOp'.r.aligned_size
     /\ (~counter.paused /\ lastOp'.attempt = 2 /\ top' # top
         /\ counter.next <= lastOp'.r.aligned_size) =>
          counter'.fired = counter.fired + 1]_vars

C11_Witness ==
  /\ counter.just
  /\ counter.held > 0
  /\ counter.resumed > 0
  /\ counter.resumed < counter.step
  /\ counter.with.aligned_size < counter.step

\* ------------------------------------------------------------- tiling
\* The object headers of the region: the allocated objects, the alignment
\* fillers and the filler over the unused tail, each with its size.
Headers ==
  {[addr |-> log[i].addr, size |-> log[i].size] : i \in DOMAIN log}
  \cup {[addr |-> log[i].filler_addr, size |-> log[i].filler] :
          i \in {j \in DOMAIN log : log[j].filler > 0}}
  \cup (IF tail.size > 0
        THEN {[addr |-> tail.addr, size |-> tail.size]}
        ELSE {})

MadeIterable == tail.addr # NoAddress

\* Scanning from an address by successive object sizes reaches limit.
ScanReachesLimit(from) ==
  LET scan[pos \in start..limit] ==
        IF pos = limit
        THEN TRUE
        ELSE \E h \in Headers :
               /\ h.addr = pos
               /\ h.size > 0
               /\ pos + h.size <= limit
               /\ scan[pos + h.size]
  IN scan[from]

\* C12: after MakeLinearAllocationAreaIterable, whatever unaligned and
\* aligned allocations the region has served, [start, limit) is tiled by
\* objects and fillers: no two headers share an address, and scanning from
\* start by successive object sizes reaches exactly limit.
C12_Tiled ==
  MadeIterable =>
    /\ \A g, h \in Headers : g.addr = h.addr => g = h
    /\ \A h \in Headers : start <= h.addr /\ h.addr + h.size <= limit
    /\ ScanReachesLimit(start)

C12_Witness ==
  /\ MadeIterable
  /\ tail.size > 0
  /\ epoch = 1
  /\ \E i, j \in DOMAIN log : log[i].filler > 0 /\ log[j].filler = 0

\* ------------------------------------------- MoveOriginalTopForward
InMoveOriginalTopForward == pc \in {"motf_store", "motf_unlock"}

\* C13: MoveOriginalTopForward stores the current top as original_top while
\* it holds the lock exclusively and changes none of top, limit, start and
\* original_limit; from one store to the next made for the same region
\* original_top never decreases.
C13_MoveForward ==
  [][/\ (pc = "motf_store" /\ pc' # pc) =>
          /\ lock = "exclusive"
          /\ original_top' = top
     /\ (InMoveOriginalTopForward \/ InMoveOriginalTopForward') =>
          UNCHANGED <<top, limit, start, original_limit>>
     /\ Latest'.at.epoch = Latest.at.epoch =>
          original_top' >= original_top]_vars

C13_Witness ==
  /\ pc = "motf_unlock"
  /\ Len(published) = 2
  /\ published[1].at.epoch = published[2].at.epoch
  /\ start < published[1].val
  /\ published[1].val < published[2].val
  /\ original_top = top

\* C14: whenever MoveOriginalTopForward has taken the lock and is about to
\* store, after any allocations, refills and resets of the bounds, its two
\* assertions hold: original_top <= top and top <= original_limit.
C14_AssertionsHold ==
  pc = "motf_store" =>
    /\ top >= original_top
    /\ top <= original_limit

C14_Witness ==
  /\ pc = "motf_store"
  /\ epoch = 2
  /\ original_top < top
  /\ top < original_limit
  /\ result.failure

\* ------------------------------------------------ both published bounds
LoadedBothLocked ==
  bounds_read.locked_top # NoAddress /\ bounds_read.locked_limit # NoAddress

\* C15 as stated: in every reachable state, the states in which the owner
\* is publishing or resetting the bounds included, original_top <=
\* original_limit.
C15_TopBelowLimit == original_top <= original_limit

\* C15 amended: original_top <= original_limit in every state in which the
\* lock is not held exclusively, and a reader that loads both bounds while
\* it holds the lock shared loads original_top <= original_limit.
C15_TopBelowLimitOutsideLock ==
  /\ lock # "exclusive" => original_top <= original_limit
  /\ LoadedBothLocked => bounds_read.locked_top <= bounds_read.locked_limit

C15_Witness ==
  /\ lock = "shared"
  /\ LoadedBothLocked
  /\ epoch = 1
  /\ pc = "sob_lock"
  /\ bounds_read.locked_top > top

\* ------------------------------------------- advancing the observers
\* A step that allocates: top moves within the region.
AllocatesFast == pc = "idle" /\ top' # top /\ start' = start
AllocatesSlow == pc = "retry" /\ top' # top /\ start' = start
\* A step that advances the countdown or invokes the observer.
Advances == counter'.next # counter.next \/ counter'.fired # counter.fired

\* C16 as stated: every successful allocation, on the fast path or on the
\* slow path, advances the observers exactly once, after top has been
\* advanced for it.
C16_OncePerAllocation ==
  [][/\ (AllocatesFast \/ AllocatesSlow) <=> Advances
     /\ counter'.fired <= counter.fired + 1
     /\ counter'.fired # counter.fired =>
          counter'.with.object + counter'.with.size = top']_vars

\* C16 amended: every allocation that succeeds on the slow path advances
\* the observers exactly once, after top has been advanced for it; an
\* allocation that succeeds on the fast path does not advance them.
C16_OncePerSlowAllocation ==
  [][/\ AllocatesSlow <=> Advances
     /\ AllocatesFast => ~Advances
     /\ counter'.fired <= counter.fired + 1
     /\ counter'.fired # counter.fired =>
          counter'.with.object + counter'.with.size = top']_vars

C16_Witness ==
  /\ lastOp.attempt = 2
  /\ Succeeded(lastOp)
  /\ pc = "idle"
  /\ ~counter.just
  /\ counter.fired = 0
  /\ counter.next < counter.step
  /\ counter.allocated > lastOp.r.aligned_size

\* ------------------------------------------------ the aligned fast path
\* The bytes needed to align an address: the least number that, added to
\* it, gives a multiple of the alignment.
BytesToAlign(address, alignment) ==
  CHOOSE f \in 0..(alignment - 1) : (address + f) % alignment = 0

\* C17: AllocateFastAligned succeeds exactly when top + size + filler <=
\* limit, filler being the bytes needed to align top; on success top is
\* advanced by size + filler, the object is at the old top + filler, a
\* filler object covers [old top, old top + filler) when filler > 0, and the
\* aligned size is size + filler.
C17_FastAligned ==
  lastOp.kind = "FastAligned" =>
    LET filler == BytesToAlign(lastOp.top, lastOp.alignment) IN
    /\ ~lastOp.r.result.failure <=>
         lastOp.top + lastOp.size + filler <= lastOp.limit
    /\ ~lastOp.r.result.failure =>
         /\ lastOp.r.top = lastOp.top + lastOp.size + filler
         /\ lastOp.r.result.object = lastOp.top + filler
         /\ lastOp.r.filler = filler
         /\ filler > 0 => lastOp.r.filler_addr = lastOp.top
         /\ filler = 0 => lastOp.r.filler_addr = NoAddress
         /\ lastOp.r.aligned_size = lastOp.size + filler
    /\ pc = "idle" => top = lastOp.r.top

C17_Witness ==
  /\ lastOp.kind = "FastAligned"
  /\ Succeeded(lastOp)
  /\ lastOp.attempt = 2
  /\ lastOp.alignment = 16
  /\ lastOp.r.filler = 12
  /\ lastOp.r.top = lastOp.limit

\* ------------------------------------------------------------ the lock
Publishing == pc \in {"sob_limit", "sob_top", "motf_store", "motf_unlock"}

\* C18: the owner holds the lock, exclusively, exactly while it publishes
\* bounds; no allocation attempt runs with the lock held; every store to
\* original_top is made with the lock held exclusively; and
\* MoveOriginalTopForward releases the lock on exit.
C18_LockOnlyForPublication ==
  /\ [](lock = "exclusive" <=> Publishing)
  /\ [][/\ lastOp' # lastOp => lock = "free" /\ lock' = "free"
        /\ published' # published =>
             /\ lock = "exclusive"
             /\ pc \in {"sob_top", "motf_store"}
        /\ (pc \in {"sob_top", "motf_store"} /\ pc' # pc) =>
             /\ lock = "exclusive"
             /\ original_top' = top
        /\ (InMoveOriginalTopForward /\ ~InMoveOriginalTopForward') =>
             lock' = "free"]_vars

C18_Witness ==
  /\ pc = "idle"
  /\ lock = "free"
  /\ epoch = 1
  /\ Len(published) = 2
  /\ published[1].at.epoch = epoch
  /\ published[1].val = start
  /\ published[2].val = top
  /\ top > start

\* ------------------------------------------------- a failed fast path
\* A step that is a fast-path attempt, failed or successful.
FailedAttempt == lastOp' # lastOp /\ lastOp'.r.result.failure
SuccessfulAttempt == lastOp' # lastOp /\ ~lastOp'.r.result.failure

\* C19: a fast-path attempt that returns Failure (unaligned: top + size >
\* limit; aligned: top + size + filler > limit) leaves start, top, limit,
\* original_top and original_limit as they were, creates no filler object
\* and computes no aligned size to report.
C19_FailureChangesNothing ==
  [][FailedAttempt =>
       /\ UNCHANGED <<start, top, limit, published, original_limit, log>>
       /\ original_top' = original_top
       /\ lastOp'.r.filler = 0
       /\ lastOp'.r.filler_addr = NoAddress
       /\ lastOp'.r.aligned_size = 0
       /\ lastOp'.kind = "FastUnaligned" => top + lastOp'.size > limit
       /\ lastOp'.kind = "FastAligned" =>
            top + lastOp'.size + BytesToAlign(top, lastOp'.alignment) > limit
    ]_vars

C19_Witness ==
  /\ pc = "slow"
  /\ lastOp.kind = "FastAligned"
  /\ lastOp.r.result.failure
  /\ BytesToAlign(lastOp.top, lastOp.alignment) > 0
  /\ lastOp.top + lastOp.size <= lastOp.limit
  /\ top = lastOp.top
  /\ original_top < top

\* C20: a successful fast-path allocation, unaligned or aligned, advances
\* top and leaves start, limit, original_top and original_limit as they
\* were, so that original_top is behind the live top after it; and
\* original_top, once behind the live top, stays behind it until
\* MoveOriginalTopForward stores (or the slow path replaces the region and
\* publishes the new one).
C20_SuccessOnlyTop ==
  [][/\ SuccessfulAttempt =>
          /\ UNCHANGED <<start, limit, published, original_limit>>
          /\ original_top' = original_top
          /\ top' = lastOp'.r.top
          /\ top' > top
          /\ original_top' < top'
     /\ (original_top < top /\ ~(original_top' < top')) =>
          pc \in {"motf_store", "slow", "sob_top"}]_vars

C20_Witness ==
  /\ pc = "idle"
  /\ Succeeded(lastOp)
  /\ lastOp.attempt = 1
  /\ lastOp.kind = "FastAligned"
  /\ lastOp.r.filler > 0
  /\ original_top = lastOp.top
  /\ lastOp.top > start
  /\ top = lastOp.r.top

====
